---- MODULE Spec2Model ----
(***************************************************************************)
(* SummingConstraintSet (src/1682/gas_male/helpers.py) as a state machine. *)
(*                                                                         *)
(* The state is a small hierarchy of gpkit sub-models (who declares which  *)
(* variable, which SummingConstraintSets sit among whose constraints), the *)
(* log of constructor calls and the objects the successful calls made.     *)
(* Construct is the whole of __init__; Attach is the caller putting a made *)
(* SummingConstraintSet among the constraints of a sub-model; a read of    *)
(* the summedvars property is the operator summedvars.                     *)
(***************************************************************************)
EXTENDS Integers, Sequences, FiniteSets, TLC

\* ------------------------------------------------------------- bounds
MaxCalls == 2          \* constructor calls in one run
MaxModels == 2         \* length of the `models` argument
MaxVariables == 1      \* length of the `variables` argument

\* ------------------------------------------------- the model hierarchy
\* Three sub-models: 1 and 2 are siblings, 3 is nested in 2.
Models == {1, 2, 3}
Parent(m) == IF m = 3 THEN 2 ELSE 0
VarNames == {"P", "W"}

VARIABLES
    name,              \* model.name of each sub-model (gpkit names are per class,
                       \* so two sub-models may share one; the num tells them apart)
    declared,          \* <<model, variable name>>: the variables each sub-model declares
    constraints,       \* per sub-model, the SummingConstraintSets directly among its constraints
    calls,             \* log of constructor calls, in order
    objs,              \* call index -> the object a successful call constructed
    defaultModels,     \* the list object bound to the default of `models`
    defaultVariables,  \* the list object bound to the default of `variables`
    scope              \* what the caller does in this run: how many sums it builds,
                       \* under which names, with how many explicit variables,
                       \* whether it lists a sub-model twice, and how many sums
                       \* it puts into sub-models

vars == <<name, declared, constraints, calls, objs,
          defaultModels, defaultVariables, scope>>

\* ------------------------------------------------- variables and keys
RECURSIVE Enclosing(_)
Enclosing(m) == IF m = 0 THEN <<>> ELSE <<m>> \o Enclosing(Parent(m))

\* the sub-models enclosing a declaration, innermost first
ChainOf == [m \in Models |-> Enclosing(m)]
Chain(m) == ChainOf[m]

NamesOf(ch) == [i \in DOMAIN ch |-> name[ch[i]]]

\* v.key of the variable `n` declared by sub-model m
VarKey(n, m) == [name |-> n, models |-> NamesOf(Chain(m)), modelnums |-> Chain(m)]

\* a free variable, declared outside every sub-model (the lhs of a sum)
FreeKey(n) == [name |-> n, models |-> <<>>, modelnums |-> <<>>]

Variable(k) == [key |-> k]

\* a sub-model and the sub-models nested in it
SubtreeOf == [m \in Models |-> {d \in Models : \E i \in DOMAIN Chain(d) : Chain(d)[i] = m}]
Subtree(m) == SubtreeOf[m]

DeclaredKeys == {VarKey(d[2], d[1]) : d \in declared}

Range(s) == {s[i] : i \in DOMAIN s}

\* vk.descr, and the key of Variable(**vk.descr)
Descr(vk) == [name |-> vk.name, models |-> vk.models, modelnums |-> vk.modelnums]
FromDescr(d) == Variable([name |-> d.name, models |-> d.models, modelnums |-> d.modelnums])

\* ------------------------------------------------- the summedvars property
\* a mutation: the keys of the whole constraint, lhs included
summedvarsWhole(o) == o.cs[1].p_lt \cup {o.cs[1].m_gt}

\* set(self[0].p_lt.varkeys)
summedvars(o) == o.cs[1].p_lt

\* ------------------------------------------------- what a sub-model shows
\* a mutation: only the constraints directly in the sub-model
flatShallow(model) == constraints[model]

\* model.flat(): every SummingConstraintSet among the constraints of the
\* sub-model or of a sub-model nested in it
flat(model) == UNION {constraints[d] : d \in Subtree(model)}

\* the keys of all variables of the sub-model: declared in it or in a
\* nested sub-model, or occurring in a constraint found in it
varkeys(model) ==
    {VarKey(d[2], d[1]) : d \in {e \in declared : e[1] \in Subtree(model)}}
    \cup UNION {objs[c].cs[1].p_lt \cup {objs[c].cs[1].m_gt} : c \in flat(model)}

\* model[varname]: the one variable of the sub-model under that name, or the
\* collection of them when there are several; KeyError when there is none
GetItem(model, varname) ==
    LET found == {Variable(k) : k \in {x \in varkeys(model) : x.name = varname}}
    IN  IF found = {} THEN [kind |-> "KeyError"]
        ELSE IF Cardinality(found) = 1
             THEN [kind |-> "single", var |-> CHOOSE v \in found : TRUE]
             ELSE [kind |-> "many", vars |-> found]

\* ------------------------------------------------- __init__, line by line
\* a mutation: the explicit variables are forgotten
SeedNone(variables) == {}

\* summedvars = set([v.key for v in variables])
Seed(variables) == {variables[i].key : i \in DOMAIN variables}

\* if not hasattr(mvars, "__len__"): mvars = [mvars]
AsList(got) == IF got.kind = "many" THEN got.vars ELSE {got.var}

\* a mutation: the filter keeps every variable of that name
DepthOneAll(mvars, model) == mvars

\* mvars = [v for v in mvars if v.key.models[0] == model.name]
DepthOne(mvars, model) == {v \in mvars : v.key.models[1] = name[model]}

\* a mutation: the assertion lets an ambiguous match through
AssertSome(mvars) == Cardinality(mvars) >= 1

\* assert len(mvars) == 1
AssertOne(mvars) == Cardinality(mvars) = 1

\* a mutation: a registry of every SummingConstraintSet ever constructed
NestedSummedRegistry(model) == UNION {summedvars(objs[c]) : c \in DOMAIN objs}

\* for constraint in model.flat(): if hasattr(constraint, "summedvars"): ...
NestedSummed(model) == UNION {summedvars(objs[c]) : c \in flat(model)}

Raised(e) == [ok |-> FALSE, error |-> e, summedvars |-> {}, alreadysummed |-> {}]

\* a mutation: alreadysummed is emptied at each pass, so only the sums
\* nested in the last listed sub-model are excluded
StepResetting(acc, model, varname) ==
    LET got == GetItem(model, varname)
        own == DepthOne(AsList(got), model)
    IN  IF got.kind = "KeyError" THEN Raised("KeyError")
        ELSE IF ~AssertOne(own) THEN Raised("AssertionError")
        ELSE [ok |-> TRUE, error |-> "",
              summedvars |-> acc.summedvars \cup {v.key : v \in own},
              alreadysummed |-> NestedSummed(model)]

\* one pass of `for model in models:`
Step(acc, model, varname) ==
    LET got == GetItem(model, varname)
        own == DepthOne(AsList(got), model)
    IN  IF got.kind = "KeyError" THEN Raised("KeyError")
        ELSE IF ~AssertOne(own) THEN Raised("AssertionError")
        ELSE [ok |-> TRUE, error |-> "",
              summedvars |-> acc.summedvars \cup {v.key : v \in own},
              alreadysummed |-> acc.alreadysummed \cup NestedSummed(model)]

RECURSIVE Loop(_, _, _, _)
\* for model in models: the passes in list order, stopping at the first error
Loop(acc, models, varname, i) ==
    IF i > Len(models) \/ ~acc.ok THEN acc
    ELSE Loop(Step(acc, models[i], varname), models, varname, i + 1)

\* a mutation: the exclusion set is never applied
DifferenceNone(s, already) == s

\* summedvars = summedvars.difference(alreadysummed)
Difference(s, already) == s \ already

\* [lhs >= sum(Variable(**vk.descr) for vk in summedvars)]: the summed side
\* holds the keys of the rebuilt variables; an empty sum is taken to give a
\* constraint whose summed side has no keys
Constraint(lhs, s) == [m_gt |-> lhs.key, p_lt |-> {FromDescr(Descr(vk)).key : vk \in s}]

\* the outcome of __init__: the error raised, or the set computed and the
\* one-constraint list the object holds
Computed(lhs, varname, models, variables) ==
    LET acc == Loop([ok |-> TRUE, error |-> "", summedvars |-> Seed(variables),
                     alreadysummed |-> {}], models, varname, 1)
    IN  IF ~acc.ok THEN [ok |-> FALSE, error |-> acc.error, summedvars |-> {}, cs |-> <<>>]
        ELSE LET s == Difference(acc.summedvars, acc.alreadysummed)
             IN  [ok |-> TRUE, error |-> "", summedvars |-> s, cs |-> <<Constraint(lhs, s)>>]

\* ------------------------------------------------- inputs
SeqsUpTo(S, n) == UNION {[1..k -> S] : k \in 0..n}

\* the lhs of a sum of `varname` is the free variable holding that total
Lhs(varname) == {Variable(FreeKey(IF varname = "P" THEN "P_total" ELSE "W_total"))}
ModelLists ==
    {s \in SeqsUpTo(Models, MaxModels) :
        scope.repeats \/ \A i \in DOMAIN s : \A j \in DOMAIN s : s[i] = s[j] => i = j}
\* the explicit variables a caller passes are variables of sub-model 1
ExtraVariables == {Variable(k) : k \in {x \in DeclaredKeys : x.modelnums[1] = 1}}
VariableLists == SeqsUpTo(ExtraVariables, scope.variables)

\* ------------------------------------------------- actions
Call(lhs, varname, models, variables, r) ==
    [lhs |-> lhs, varname |-> varname, models |-> models, variables |-> variables,
     tree |-> constraints, ok |-> r.ok, error |-> r.error, computed |-> r.summedvars]

\* a mutation: the constructor registers the new object with its first sub-model
ConstructRegistering(lhs, varname, models, variables) ==
    /\ Len(calls) < scope.calls
    /\ \E r \in {Computed(lhs, varname, models, variables)} :
        /\ calls' = Append(calls, Call(lhs, varname, models, variables, r))
        /\ objs' = IF r.ok THEN (Len(calls) + 1 :> [cs |-> r.cs]) @@ objs ELSE objs
        /\ constraints' = IF r.ok /\ models # <<>>
                          THEN [constraints EXCEPT ![models[1]] = @ \cup {Len(calls) + 1}]
                          ELSE constraints
    /\ UNCHANGED <<name, declared, defaultModels, defaultVariables, scope>>

\* SummingConstraintSet(lhs, varname, models, variables): the call is logged
\* with its outcome, and a call that raises constructs no object
Construct(lhs, varname, models, variables) ==
    /\ Len(calls) < scope.calls
    /\ \E r \in {Computed(lhs, varname, models, variables)} :
        /\ calls' = Append(calls, Call(lhs, varname, models, variables, r))
        /\ objs' = IF r.ok THEN (Len(calls) + 1 :> [cs |-> r.cs]) @@ objs ELSE objs
    /\ UNCHANGED <<name, declared, constraints, defaultModels, defaultVariables, scope>>

\* the caller builds a SummingConstraintSet; an omitted `models` or
\* `variables` is the default list of the function
ConstructAny ==
    \E varname \in scope.varnames :
        \E lhs \in Lhs(varname),
           models \in ModelLists \cup {defaultModels},
           variables \in VariableLists \cup {defaultVariables} :
            Construct(lhs, varname, models, variables)

\* the caller puts a constructed SummingConstraintSet among the constraints
\* of a sub-model
Attach(c, m) ==
    /\ c \in DOMAIN objs
    /\ \A d \in Models : c \notin constraints[d]
    /\ Cardinality(UNION {constraints[d] : d \in Models}) < scope.attached
    /\ constraints' = [constraints EXCEPT ![m] = @ \cup {c}]
    /\ UNCHANGED <<name, declared, calls, objs, defaultModels, defaultVariables, scope>>

AttachAny == \E c \in DOMAIN objs, m \in Models : Attach(c, m)

\* the sub-models as the caller has built them: 3, nested in 2, is an
\* instance of the class of 2 or of another class; 2 declares P itself or not
World ==
    /\ \E n3 \in {"B", "C"} : name = (1 :> "A") @@ (2 :> "B") @@ (3 :> n3)
    /\ \E own2 \in SUBSET {<<2, "P">>} :
           declared = {<<1, "P">>, <<3, "P">>, <<1, "W">>} \cup own2
    /\ constraints = [m \in Models |-> {}]
    /\ calls = <<>>
    /\ objs = <<>>
    /\ defaultModels = <<>>
    /\ defaultVariables = <<>>

\* a few sums of any name, with explicit variables
Init ==
    /\ World
    /\ scope = [calls |-> MaxCalls, varnames |-> VarNames, variables |-> MaxVariables,
                repeats |-> TRUE, attached |-> MaxCalls]

\* one sum more, all of P, without explicit variables, with no sub-model
\* listed twice and with one sum fewer put into a sub-model
InitDeep ==
    /\ World
    /\ scope = [calls |-> MaxCalls + 1, varnames |-> {"P"}, variables |-> 0,
                repeats |-> FALSE, attached |-> MaxCalls - 1]

Next == ConstructAny \/ AttachAny

Spec == Init /\ [][Next]_vars

SpecDeep == InitDeep /\ [][Next]_vars

\* ------------------------------------------------- the claims
\* What a call could see, restated from the tree as it stood at the call.
FlatAt(tree, m) == UNION {tree[d] : d \in Subtree(m)}

VarKeysAt(tree, m) ==
    {k \in DeclaredKeys : k.modelnums[1] \in Subtree(m)}
    \cup UNION {objs[c].cs[1].p_lt \cup {objs[c].cs[1].m_gt} : c \in FlatAt(tree, m)}

\* the variables of m under the name vn whose chain starts with the name of m
MatchingAt(tree, m, vn) ==
    {k \in VarKeysAt(tree, m) : k.name = vn /\ k.models # <<>> /\ k.models[1] = name[m]}

ExplicitKeys(c) == {c.variables[i].key : i \in DOMAIN c.variables}

SeenBy(c) == UNION {FlatAt(c.tree, m) : m \in Range(c.models)}

\* the keys summed by the SummingConstraintSets nested in the listed sub-models
NestedAt(c) == UNION {summedvars(objs[b]) : b \in SeenBy(c)}

Candidates(c) ==
    ExplicitKeys(c) \cup UNION {MatchingAt(c.tree, m, c.varname) : m \in Range(c.models)}

EachExposesOne(c) ==
    \A m \in Range(c.models) : Cardinality(MatchingAt(c.tree, m, c.varname)) = 1

Attached == UNION {constraints[m] : m \in Models}

\* C1: when every listed sub-model exposes exactly one matching variable, the
\* call succeeds and summedvars is the explicit keys and the matching keys,
\* minus the keys summed by the SummingConstraintSets nested in the listed
\* sub-models.
C1_SummedVarsFormula ==
    \A i \in DOMAIN calls :
        EachExposesOne(calls[i]) =>
            /\ calls[i].ok
            /\ i \in DOMAIN objs
            /\ summedvars(objs[i]) = Candidates(calls[i]) \ NestedAt(calls[i])

\* a sum over two sub-models with an explicit variable, some candidate of
\* which a nested sum had already taken
C1_Witness ==
    \E i \in DOMAIN objs :
        /\ Len(calls[i].models) = 2
        /\ calls[i].variables # <<>>
        /\ Candidates(calls[i]) \cap NestedAt(calls[i]) # {}
        /\ summedvars(objs[i]) # {}

\* C2 as stated: B is among the constraints of a sub-model A lists and was
\* constructed before A, so A and B share no key.
C2_AsStated ==
    \A a \in DOMAIN objs : \A b \in DOMAIN objs :
        (b < a /\ \E m \in Range(calls[a].models) : b \in flat(m))
            => summedvars(objs[a]) \cap summedvars(objs[b]) = {}

\* C2, amended: B was among the constraints of a sub-model A lists (at any
\* depth) when A was constructed, so A and B share no key.
C2_NoDoubleCounting ==
    \A a \in DOMAIN objs : \A b \in DOMAIN objs :
        b \in SeenBy(calls[a])
            => summedvars(objs[a]) \cap summedvars(objs[b]) = {}

\* B sits in sub-model 3, nested in 2; A lists 2 and would have summed a
\* key of B
C2_Witness ==
    \E a \in DOMAIN objs : \E b \in DOMAIN objs :
        /\ b \in calls[a].tree[3]
        /\ 2 \in Range(calls[a].models)
        /\ summedvars(objs[b]) \cap Candidates(calls[a]) # {}

\* C3 as stated: no key is in the summedvars of two SummingConstraintSets of
\* the tree.
C3_AsStated ==
    \A a \in Attached : \A b \in Attached :
        a # b => summedvars(objs[a]) \cap summedvars(objs[b]) = {}

\* C3, amended: at its construction a SummingConstraintSet takes no key that
\* a SummingConstraintSet then nested in one of its listed sub-models sums;
\* sums beside it, and sums put into a sub-model later, may share its keys.
C3_NoKeyOfNestedSum ==
    [][(Len(calls') = Len(calls) + 1 /\ calls'[Len(calls')].ok) =>
         \A k \in summedvars(objs'[Len(calls')]) :
             \A m \in Range(calls'[Len(calls')].models) : \A b \in flat(m) :
                 k \notin summedvars(objs[b])]_vars

\* a sum built over a sub-model that holds a sum of the very key the
\* sub-model contributes
C3_Witness ==
    \E i \in DOMAIN objs :
        /\ calls[i].variables = <<>>
        /\ calls[i].models # <<>>
        /\ Candidates(calls[i]) \subseteq NestedAt(calls[i])

\* C4: a listed sub-model that exposes zero, or two or more, matching
\* variables makes the call raise, and no object is constructed.
C4_FailsWithoutObject ==
    \A i \in DOMAIN calls :
        ~EachExposesOne(calls[i]) =>
            /\ ~calls[i].ok
            /\ calls[i].error \in {"KeyError", "AssertionError"}
            /\ i \notin DOMAIN objs

\* one call failed on a sub-model with two matches, another on a sub-model
\* with none, each with a sound sub-model listed first
C4_Witness ==
    /\ \E i \in DOMAIN calls :
        /\ Len(calls[i].models) = 2
        /\ Cardinality(MatchingAt(calls[i].tree, calls[i].models[1], calls[i].varname)) = 1
        /\ Cardinality(MatchingAt(calls[i].tree, calls[i].models[2], calls[i].varname)) >= 2
        /\ ~calls[i].ok
    /\ \E i \in DOMAIN calls :
        /\ Len(calls[i].models) = 2
        /\ Cardinality(MatchingAt(calls[i].tree, calls[i].models[1], calls[i].varname)) = 1
        /\ Cardinality(MatchingAt(calls[i].tree, calls[i].models[2], calls[i].varname)) = 0
        /\ ~calls[i].ok

\* C5 as stated: the key of every explicit variable is in summedvars.
C5_AsStated ==
    \A i \in DOMAIN objs : ExplicitKeys(calls[i]) \subseteq summedvars(objs[i])

\* C5, amended: the key of an explicit variable is in summedvars exactly when
\* no SummingConstraintSet nested in a listed sub-model sums it.
C5_ExplicitUnlessNested ==
    \A i \in DOMAIN objs : \A k \in ExplicitKeys(calls[i]) :
        k \in summedvars(objs[i]) <=> k \notin NestedAt(calls[i])

\* an explicit variable that no listed sub-model contributes was kept by one
\* sum and dropped by another
C5_Witness ==
    /\ \E i \in DOMAIN objs : \E k \in ExplicitKeys(calls[i]) :
        /\ k \notin UNION {MatchingAt(calls[i].tree, m, calls[i].varname) :
                              m \in Range(calls[i].models)}
        /\ k \in summedvars(objs[i])
    /\ \E i \in DOMAIN objs : \E k \in ExplicitKeys(calls[i]) :
        /\ k \notin UNION {MatchingAt(calls[i].tree, m, calls[i].varname) :
                              m \in Range(calls[i].models)}
        /\ k \notin summedvars(objs[i])

\* C6 as stated: the variable a listed sub-model contributes is never one
\* declared by a sub-model nested in it.
C6_AsStated ==
    \A i \in DOMAIN objs : \A m \in Range(calls[i].models) :
        \A k \in MatchingAt(calls[i].tree, m, calls[i].varname) :
            k.modelnums[1] \notin Subtree(m) \ {m}

C8_Frame ==
    [][Len(calls') = Len(calls) + 1 =>
         /\ name' = name /\ declared' = declared /\ constraints' = constraints
         /\ \A m \in Models : flat(m)' = flat(m) /\ varkeys(m)' = varkeys(m)
         /\ \A b \in DOMAIN objs : b \in DOMAIN objs' /\ objs'[b] = objs[b]
         /\ defaultModels' = defaultModels /\ defaultVariables' = defaultVariables]_vars

\* after a call that succeeded, a call over a sub-model that holds a sum failed
C8_Witness ==
    \E i \in DOMAIN objs : \E j \in DOMAIN calls :
        /\ i < j
        /\ ~calls[j].ok
        /\ calls[j].models # <<>>
        /\ SeenBy(calls[j]) # {}

IsPermutation(s, t) ==
    /\ Len(s) = Len(t)
    /\ \A m \in Models :
        Cardinality({i \in DOMAIN s : s[i] = m}) = Cardinality({i \in DOMAIN t : t[i] = m})

\* C10: over the same sub-models in another order the call has the same
\* outcome and the same summedvars, and a key a listed sub-model or an explicit
\* variable contributes is excluded when a sum nested in any listed sub-model,
\* earlier or later in the list, has it.
C10_OrderIndependent ==
    /\ \A i \in DOMAIN calls : \A j \in DOMAIN calls :
        (/\ calls[i].lhs = calls[j].lhs
         /\ calls[i].varname = calls[j].varname
         /\ calls[i].variables = calls[j].variables
         /\ calls[i].tree = calls[j].tree
         /\ IsPermutation(calls[i].models, calls[j].models))
            => /\ calls[i].ok = calls[j].ok
               /\ calls[i].ok => summedvars(objs[i]) = summedvars(objs[j])
    /\ \A i \in DOMAIN objs : \A p \in DOMAIN calls[i].models :
        \A q \in DOMAIN calls[i].models :
            \A k \in MatchingAt(calls[i].tree, calls[i].models[p], calls[i].varname)
                     \cup ExplicitKeys(calls[i]) :
                (\E b \in FlatAt(calls[i].tree, calls[i].models[q]) :
                    k \in summedvars(objs[b])) => k \notin summedvars(objs[i])

\* two sums over the same two sub-models in opposite orders, whose first
\* listed sub-model contributes a key that a sum nested in the other has
C10_Witness ==
    \E i \in DOMAIN objs : \E j \in DOMAIN objs :
        /\ i # j
        /\ Len(calls[i].models) = 2
        /\ calls[i].models[1] # calls[i].models[2]
        /\ calls[j].models = <<calls[i].models[2], calls[i].models[1]>>
        /\ calls[i].tree = calls[j].tree
        /\ \E b \in FlatAt(calls[i].tree, calls[i].models[2]) :
            MatchingAt(calls[i].tree, calls[i].models[1], "P") \cap summedvars(objs[b]) # {}
        /\ summedvars(objs[i]) # {}

====
